---- MODULE Spec2Model ----
(***************************************************************************)
(* Workflow execution engine of pii_masking:                               *)
(*   DataMaskingService.execute_workflow and the table copy it drives      *)
(*   (src/pii_masking/masking/services/masking_service.py), together with  *)
(*   the execution-record persistence it uses                              *)
(*   (src/pii_masking/masking/crud/workflow.py).                           *)
(*                                                                         *)
(* One behaviour is one invocation of execute_workflow on the event loop,  *)
(* the worker thread that run_in_executor starts for each table mapping,   *)
(* and the progress-update coroutines that the worker schedules back onto  *)
(* the loop.  Rows are counted, not stored: a source table is its row      *)
(* count, a page is its length.  The masker (_mask_rows) is followed cell  *)
(* by cell in a specification of its own, MaskSpec, and the route that     *)
(* starts a run (routes/workflow.py) is one more action of Spec.           *)
(* PageSpec hands the masked page to the insert, RerunSpec executes the    *)
(* workflow again after a failed run, and PairSpec interleaves the workers *)
(* of two workflows executed at the same time.                             *)
(***************************************************************************)
EXTENDS Integers, Sequences, FiniteSets, TLC

\* ------------------------------------------------------------------ bounds
MaxMappings  == 2   \* table mappings of the workflow: 0..MaxMappings
MaxFullPages == 2   \* the largest source table: MaxFullPages full pages + 1 row
MaxFaults    == 1   \* runtime errors (database, driver) and timed-out waits per run
MaxRows      == 2   \* rows of the page handed to the masker: 1..MaxRows
MaxDays      == 2   \* days on which masking runs: 0..MaxDays

\* ------------------------------------------------------- program constants
batch_size == 1000

RUNNING   == "running"
COMPLETED == "completed"
FAILED    == "failed"
WorkflowStatus == {"draft", "ready", RUNNING, COMPLETED, FAILED}

ConnectionType == {"azure_sql", "oracle", "postgresql", "mysql", "sql_server"}

\* Sentinels for Python's None in integer and string positions.
None    == 0 - 1
NoText  == ""

\* An execution id that names no record of the table.
MissingExecutionId == 9

\* Rows present in a destination table before the run.
PreRows == 5

\* Destination column list of every table mapping, and the identity columns
\* the destination tables may have (all tables of a run are shaped alike).
dest_columns == <<"id", "name", "ssn">>
IdentityChoices == {{}, {"id"}}

VARIABLES
    PYODBC_AVAILABLE,   \* module flag, line 12/14
    PSYCOPG2_AVAILABLE, \* module flag, line 21/23
    workflow_status,    \* Workflow.status of the workflow that is executed
    executions,         \* table workflow_executions: id -> record
    pc,                 \* position of execute_workflow / the worker
    execution,          \* local `execution` (its id), None before it is bound
    execution_logs,     \* local list shared by the coroutine and the worker
    error,              \* str(e) of the exception being propagated
    table_count,        \* len(workflow.table_mappings)
    idx,                \* table mappings already left by the for loop
    total_records,      \* local total_records
    source_kind,        \* _get_connection_type(source_conn_str)
    dest_kind,          \* _get_connection_type(dest_conn_str)
    dest_rows,          \* destination table of mapping k: committed row count
    dest_explicit,      \* ... of which rows whose identity value was supplied
    dest_identity,      \* identity columns of the current destination table
    total_count,        \* worker: COUNT(*) of the source table
    cursor_pos,         \* worker: rows already fetched from the cursor
    batch_num,          \* worker: batch_num
    rows_len,           \* worker: len(rows) of the page in flight
    records_processed,  \* worker: records_processed
    pending,            \* progress updates scheduled on the loop, wait timed out
    trace,              \* history: clear / fetch / mask / insert events
    faults,             \* runtime errors and timed-out waits so far
    requester,          \* who user_id is to the workflow, once it is loaded
    response,           \* what POST /{workflow_id}/execute answered
    today,              \* the date of the system clock, in days
    masked_cells,       \* history: the cells _mask_rows has handled
    mask_pc,            \* position of _mask_rows
    column_mappings,    \* table_mapping.column_mappings of the page
    total_rows,         \* _mask_rows: total_rows = len(rows)
    row_num,            \* _mask_rows: row_num
    col_index,          \* _mask_rows: i, counted from 1
    warnings,           \* lines _mask_rows has sent to logger.warning
    inserted,           \* the INSERT built for the masked page, once it is
    runs,               \* concurrent executions: workflow -> worker state
    tables              \* their destinations: table -> origin -> rows held

engine == <<PYODBC_AVAILABLE, PSYCOPG2_AVAILABLE, workflow_status,
          executions, pc, execution,
          execution_logs, error, table_count, idx,
          total_records, source_kind, dest_kind, dest_rows, dest_explicit,
          dest_identity, total_count, cursor_pos, batch_num, rows_len,
          records_processed, pending, trace, faults, requester, response>>

masking == <<today, masked_cells, mask_pc, column_mappings, total_rows,
             row_num, col_index, warnings, inserted>>
maskloop == <<mask_pc, column_mappings, total_rows, row_num, col_index>>
pair    == <<runs, tables>>
vars    == <<engine, masking, pair>>

flags    == <<PYODBC_AVAILABLE, PSYCOPG2_AVAILABLE>>
kinds    == <<source_kind, dest_kind>>
destvars == <<dest_rows, dest_explicit, dest_identity>>
worker   == <<total_count, cursor_pos, batch_num, rows_len, records_processed>>
loopvars == <<table_count, idx, total_records>>

\* ------------------------------------------------------------- log lines
\* One record per f-string of the service; k is the table mapping, n and m the
\* numbers the line prints, msg the text it embeds.
LogLine(tag, k, n, m, msg) == [tag |-> tag, k |-> k, n |-> n, m |-> m, msg |-> msg]

\* ------------------------------------------------- execution persistence
\* WorkflowExecution(...) as create_workflow_execution builds it.
NewExecution ==
    [status |-> RUNNING, completed_at |-> FALSE, error_message |-> NoText,
     records_processed |-> 0, execution_logs |-> <<>>]

\* The id the table's autoincrement key gives the next record.
NextExecutionId(execs) == Cardinality(DOMAIN execs) + 1

create_workflow_execution(execs) ==
    [i \in DOMAIN execs \cup {NextExecutionId(execs)} |->
        IF i \in DOMAIN execs THEN execs[i] ELSE NewExecution]

\* get_workflow_execution_by_id: the record's id, or None.
get_workflow_execution_by_id(execs, id) ==
    IF id \in DOMAIN execs THEN id ELSE None

\* update_workflow_execution: unconditional overwrite of the selected record.
update_workflow_execution(execs, id, status, error_message, recs, logs) ==
    IF id \in DOMAIN execs
    THEN [execs EXCEPT ![id] =
            [status            |-> status,
             completed_at      |-> IF status \in {COMPLETED, FAILED}
                                   THEN TRUE ELSE @.completed_at,
             error_message     |-> IF error_message # NoText
                                   THEN error_message ELSE @.error_message,
             records_processed |-> IF recs # None
                                   THEN recs ELSE @.records_processed,
             execution_logs    |-> IF logs # <<>>
                                   THEN logs ELSE @.execution_logs]]
    ELSE execs

\* No INSERT has been built for the masker's page.
NoInsert == [filtered_columns |-> <<>>, filtered_data |-> <<>>]

\* Two workflows that may be executed at the same time, and the destination
\* tables their table mappings may name.  A row of a table is told by its
\* origin: the workflow whose execution inserted it, or NoWorkflow for a row
\* that was there before.
Workflows  == {"w1", "w2"}
NoWorkflow == "none"
Tables     == {"masked_a", "masked_b"}

\* The worker of a workflow that is not being executed.
IdleRun == [pc |-> "idle", destination_table |-> NoText, total_count |-> 0,
            cursor_pos |-> 0, rows_len |-> 0, records_processed |-> 0]

\* No request has been answered.
NoResponse == [role |-> NoText, found |-> FALSE, owner |-> FALSE,
               status_code |-> None, execution_id |-> None]

\* ------------------------------------------------------------------- Init
Init ==
    /\ PYODBC_AVAILABLE \in BOOLEAN
    /\ PSYCOPG2_AVAILABLE \in BOOLEAN
    /\ executions \in {<<>>, create_workflow_execution(<<>>)}
    /\ workflow_status = "draft"
    /\ pc = "invoke"
    /\ execution = None
    /\ execution_logs = <<>>
    /\ error = NoText
    /\ table_count = 0
    /\ idx = 0
    /\ total_records = 0
    /\ source_kind = NoText
    /\ dest_kind = NoText
    /\ dest_rows = [k \in 1..MaxMappings |-> PreRows]
    /\ dest_explicit = [k \in 1..MaxMappings |-> 0]
    /\ dest_identity = {}
    /\ total_count = 0
    /\ cursor_pos = 0
    /\ batch_num = 0
    /\ rows_len = 0
    /\ records_processed = 0
    /\ pending = {}
    /\ trace = <<>>
    /\ faults = 0
    /\ requester = NoText
    /\ response = NoResponse
    /\ today = 0
    /\ masked_cells = <<>>
    /\ mask_pc = "idle"
    /\ column_mappings = <<>>
    /\ total_rows = 0
    /\ row_num = 0
    /\ col_index = 0
    /\ warnings = <<>>
    /\ inserted = NoInsert
    /\ runs = [w \in Workflows |-> IdleRun]
    /\ tables = [t \in Tables |->
                    [o \in Workflows \cup {NoWorkflow} |->
                        IF o = NoWorkflow THEN PreRows ELSE 0]]

\* A runtime error or a timeout may happen while the budget lasts.
MayFault == faults < MaxFaults

\* ------------------------------------------------------- execute_workflow
\* The execution_id a caller passes.  The synchronous route
\* (routes/masking.py:105) has created no record and passes none.  The
\* background task (routes/workflow.py:233) passes the id it was given: the
\* id of the record created for it, or of a record that is gone.
ExecutionIdArgs ==
    LET created == {id \in DOMAIN executions : executions[id] = NewExecution}
    IN  IF created = {} THEN {None, MissingExecutionId} ELSE created

\* Lines 143-158: driver check and binding of the execution record.  Both
\* raises happen before the try block, so nothing is written.
Invoke ==
    /\ pc = "invoke"
    /\ \E execution_id \in ExecutionIdArgs :
         IF ~PYODBC_AVAILABLE /\ ~PSYCOPG2_AVAILABLE
         THEN /\ pc' = "raised"
              /\ error' = "No database drivers installed"
              /\ UNCHANGED <<executions, execution>>
         ELSE IF execution_id = None
         THEN /\ executions' = create_workflow_execution(executions)
              /\ execution' = NextExecutionId(executions)
              /\ pc' = "load_workflow"
              /\ UNCHANGED error
         ELSE IF get_workflow_execution_by_id(executions, execution_id) = None
         THEN /\ pc' = "raised"
              /\ error' = "Execution not found"
              /\ UNCHANGED <<executions, execution>>
         ELSE /\ execution' = get_workflow_execution_by_id(executions, execution_id)
              /\ pc' = "load_workflow"
              /\ UNCHANGED <<executions, error>>
    /\ UNCHANGED <<flags, workflow_status, masking, pair,
                   response, requester,
                   execution_logs, loopvars, kinds, destvars, worker,
                   pending, trace, faults>>

\* The except block of execute_workflow is entered with str(e) = msg.
Raise(msg) ==
    /\ pc' = "except"
    /\ error' = msg

\* Lines 162-178: load the workflow, check ownership, first RUNNING update.
\* The requester of a run: the user the workflow belongs to, another user
\* whose role is admin, or another user without that role.
Requesters == {"owner", "admin", "other"}

Unauthorized == "Unauthorized to execute this workflow"

LoadWorkflow ==
    /\ pc = "load_workflow"
    /\ \E found \in BOOLEAN, who \in Requesters, n \in 0..MaxMappings :
         IF ~found
         THEN /\ Raise("Workflow not found")
              /\ UNCHANGED <<executions, execution_logs, table_count, faults,
                             requester>>
         ELSE IF who # "owner"
         THEN /\ Raise(Unauthorized)
              /\ requester' = who
              /\ UNCHANGED <<executions, execution_logs, table_count, faults>>
         ELSE /\ table_count' = n
              /\ requester' = who
              /\ execution_logs' = Append(execution_logs,
                                          LogLine("started", 0, 0, 0, NoText))
              /\ \/ /\ executions' = update_workflow_execution(executions,
                            execution, RUNNING, NoText, None, execution_logs')
                    /\ pc' = "connections"
                    /\ UNCHANGED <<error, faults>>
                 \/ /\ MayFault
                    /\ faults' = faults + 1
                    /\ Raise("database error")
                    /\ UNCHANGED executions
    /\ UNCHANGED <<flags, workflow_status, masking, pair,
                   response, execution, idx, total_records,
                   kinds, destvars,
                   worker, pending, trace>>

\* _get_best_odbc_driver, lines 285-301.
get_best_odbc_driver(odbc_ok) ==
    IF ~PYODBC_AVAILABLE THEN [ok |-> FALSE, val |-> "pyodbc is not available"]
    ELSE IF odbc_ok THEN [ok |-> TRUE, val |-> "ODBC Driver"]
    ELSE [ok |-> FALSE, val |-> "No compatible SQL Server ODBC driver found"]

\* _build_connection_string followed by _get_connection_type, lines 303-348:
\* the kind of string that is built, or the ValueError raised.
build_connection_string(connection_type, odbc_ok) ==
    IF connection_type \in {"azure_sql", "sql_server"}
    THEN IF get_best_odbc_driver(odbc_ok).ok
         THEN [ok |-> TRUE, val |-> "sql_server"]
         ELSE get_best_odbc_driver(odbc_ok)
    ELSE IF connection_type = "postgresql"
    THEN [ok |-> TRUE, val |-> "postgresql"]
    ELSE [ok |-> FALSE, val |-> "Unsupported connection type"]

\* Lines 182-220: resolve both connections, decrypt, build both strings,
\* second RUNNING update.
ResolveConnections ==
    /\ pc = "connections"
    /\ \E src_found \in BOOLEAN, dst_found \in BOOLEAN, decrypt_ok \in BOOLEAN,
          src_type \in ConnectionType, dst_type \in ConnectionType,
          odbc_ok \in BOOLEAN :
         LET s == build_connection_string(src_type, odbc_ok)
             d == build_connection_string(dst_type, odbc_ok)
         IN
         IF ~src_found \/ ~dst_found
         THEN /\ Raise("Source or destination connection not found")
              /\ UNCHANGED <<executions, execution_logs, kinds, faults>>
         ELSE IF ~decrypt_ok
         THEN /\ Raise("Failed to decrypt connection passwords")
              /\ UNCHANGED <<executions, execution_logs, kinds, faults>>
         ELSE IF ~s.ok
         THEN /\ Raise(s.val)
              /\ UNCHANGED <<executions, execution_logs, kinds, faults>>
         ELSE IF ~d.ok
         THEN /\ Raise(d.val)
              /\ UNCHANGED <<executions, execution_logs, kinds, faults>>
         ELSE /\ source_kind' = s.val
              /\ dest_kind' = d.val
              /\ execution_logs' = Append(execution_logs,
                                          LogLine("connected", 0, 0, 0, NoText))
              /\ \/ /\ executions' = update_workflow_execution(executions,
                            execution, RUNNING, NoText, None, execution_logs')
                    /\ pc' = "start_tables"
                    /\ UNCHANGED <<error, faults>>
                 \/ /\ MayFault
                    /\ faults' = faults + 1
                    /\ Raise("database error")
                    /\ UNCHANGED executions
    /\ UNCHANGED <<flags, workflow_status, masking, pair,
                   response, requester,
                   execution, loopvars, destvars, worker, pending,
                   trace>>

\* Lines 222-232: total_records = 0, the "Starting data masking" line and the
\* third RUNNING update.
StartTables ==
    /\ pc = "start_tables"
    /\ total_records' = 0
    /\ idx' = 0
    /\ execution_logs' = Append(execution_logs,
                                LogLine("starting", 0, table_count, 0, NoText))
    /\ \/ /\ executions' = update_workflow_execution(executions, execution,
                                RUNNING, NoText, None, execution_logs')
          /\ pc' = "next_mapping"
          /\ UNCHANGED <<error, faults>>
       \/ /\ MayFault
          /\ faults' = faults + 1
          /\ Raise("database error")
          /\ UNCHANGED executions
    /\ UNCHANGED <<flags, workflow_status, masking, pair,
                   response, requester,
                   execution, table_count, kinds, destvars, worker,
                   pending, trace>>

\* Mutant of table_mapping: the mappings are walked in reverse order.
table_mapping_reversed == table_count - idx

\* Line 233: the table mapping the for loop is at (1-based position in
\* workflow.table_mappings, which enumerate walks in declared order).
table_mapping == idx + 1

\* Line 233-235: the for loop takes the next table mapping, or ends.
NextMapping ==
    /\ pc = "next_mapping"
    /\ IF idx < table_count
       THEN /\ execution_logs' = Append(execution_logs,
                                   LogLine("processing", table_mapping, 0, 0, NoText))
            /\ pc' = "clear"
       ELSE /\ pc' = "complete"
            /\ UNCHANGED execution_logs
    /\ UNCHANGED <<flags, workflow_status, masking, pair,
                   response, requester,
                   executions, execution, error, loopvars, kinds,
                   destvars, worker, pending, trace, faults>>

\* --------------------------------------------------- _process_table_mapping
\* The driver module a connection of this kind needs is importable.
DriverAvailable(kind) ==
    IF kind = "sql_server" THEN PYODBC_AVAILABLE ELSE PSYCOPG2_AVAILABLE

\* Row counts a source table may have.
SourceSizes == {0, 1, batch_size, MaxFullPages * batch_size + 1}

\* The except clauses of the PostgreSQL branch of _process_data_sync
\* (lines 650-659) append one line before re-raising; the SQL Server branch
\* has none.
TableError(logs, k, msg) ==
    IF source_kind = "postgresql"
    THEN Append(logs, LogLine("table_error", k, 0, 0, msg))
    ELSE logs

\* Mutant of clear_sync: the DELETE is never committed.
clear_sync_uncommitted(rows) == rows

\* clear_sync, lines 763-788: DELETE FROM the table and commit; the number of
\* rows the table holds afterwards.
clear_sync(rows) == 0

\* Lines 433-438 and _clear_destination_table (758-790).
ClearDestination ==
    /\ pc = "clear"
    /\ LET k == table_mapping
           logs1 == Append(execution_logs, LogLine("clearing", k, 0, 0, NoText))
       IN
       \/ /\ DriverAvailable(dest_kind)
          /\ dest_rows' = [dest_rows EXCEPT ![k] = clear_sync(@)]
          /\ dest_explicit' = [dest_explicit EXCEPT ![k] = clear_sync(@)]
          /\ IF idx = 0
             THEN \E ident \in IdentityChoices : dest_identity' = ident
             ELSE UNCHANGED dest_identity
          /\ trace' = Append(trace, [op |-> "clear", k |-> k, page |-> 0,
                                     len |-> 0, cols |-> <<>>])
          /\ execution_logs' = Append(logs1, LogLine("cleared", k, 0, 0, NoText))
          /\ pc' = "count"
          /\ UNCHANGED <<error, faults>>
       \/ /\ ~DriverAvailable(dest_kind) \/ MayFault
          /\ faults' = IF DriverAvailable(dest_kind) THEN faults + 1 ELSE faults
          /\ execution_logs' = logs1
          /\ Raise("clear failed")
          /\ UNCHANGED <<destvars, trace>>
    /\ UNCHANGED <<flags, workflow_status, masking, pair,
                   response, requester,
                   executions, execution, loopvars, kinds, worker,
                   pending>>

\* Mutant of after_count: an empty source table is raised as an error.
after_count_empty_raises(n) == IF n = 0 THEN "except" ELSE "fetch"

\* Lines 531-534 / 598-601: `if total_count == 0: ... return 0` leaves the
\* worker before the SELECT; otherwise the fetch loop follows.
after_count(n) == IF n = 0 THEN "finish_mapping" ELSE "fetch"

\* _process_data_sync up to the fetch loop (lines 515-546 / 578-608):
\* connect to the source, COUNT(*), the zero-rows short cut.
CountSource ==
    /\ pc = "count"
    /\ LET k == table_mapping
           logs1 == IF source_kind = "postgresql"
                    THEN Append(execution_logs, LogLine("fetching", k, 0, 0, NoText))
                    ELSE execution_logs
       IN
       \/ /\ DriverAvailable(source_kind)
          /\ \E n \in SourceSizes :
               /\ total_count' = n
               /\ execution_logs' =
                    IF n = 0
                    THEN Append(Append(logs1, LogLine("count", k, n, 0, NoText)),
                                LogLine("empty", k, 0, 0, NoText))
                    ELSE Append(logs1, LogLine("count", k, n, 0, NoText))
               /\ pc' = after_count(n)
          /\ cursor_pos' = 0
          /\ batch_num' = 0
          /\ rows_len' = 0
          /\ records_processed' = 0
          /\ UNCHANGED <<error, faults>>
       \/ /\ ~DriverAvailable(source_kind)
          /\ Raise("name 'psycopg2' is not defined")
          /\ UNCHANGED <<execution_logs, worker, faults>>
       \/ /\ DriverAvailable(source_kind)
          /\ MayFault
          /\ faults' = faults + 1
          /\ execution_logs' = TableError(execution_logs, k, "source error")
          /\ Raise("source error")
          /\ UNCHANGED worker
    /\ UNCHANGED <<flags, workflow_status, masking, pair,
                   response, requester,
                   executions, execution, loopvars, kinds, destvars,
                   pending, trace>>

\* Mutant of fetchmany: a last page shorter than the batch is dropped.
fetchmany_full_pages(size) ==
    IF total_count - cursor_pos < size THEN 0 ELSE size

\* cursor.fetchmany(batch_size): the next page of the cursor.
fetchmany(size) ==
    IF total_count - cursor_pos < size THEN total_count - cursor_pos ELSE size

\* Lines 548-554 / 610-616: fetch one page; an empty page ends the loop.
FetchPage ==
    /\ pc = "fetch"
    /\ LET k == table_mapping
           n == fetchmany(batch_size)
       IN
       \/ /\ n = 0
          /\ execution_logs' =
               IF source_kind = "postgresql"
               THEN Append(execution_logs,
                           LogLine("table_done", k, records_processed, 0, NoText))
               ELSE execution_logs
          /\ pc' = "finish_mapping"
          /\ UNCHANGED <<error, worker, trace, faults>>
       \/ /\ n > 0
          /\ rows_len' = n
          /\ cursor_pos' = cursor_pos + n
          /\ batch_num' = batch_num + 1
          /\ trace' = Append(trace, [op |-> "fetch", k |-> k,
                                     page |-> batch_num + 1, len |-> n,
                                     cols |-> <<>>])
          /\ pc' = "insert"
          /\ UNCHANGED <<error, execution_logs, total_count, records_processed,
                         faults>>
       \/ /\ MayFault
          /\ faults' = faults + 1
          /\ execution_logs' = TableError(execution_logs, k, "source error")
          /\ Raise("source error")
          /\ UNCHANGED <<worker, trace>>
    /\ UNCHANGED <<flags, workflow_status, masking, pair,
                   response, requester,
                   executions, execution, loopvars, kinds, destvars,
                   pending>>

\* _get_identity_columns, lines 700-756: the identity columns of the
\* destination table, or [] when the lookup raises.
get_identity_columns(lookup_ok) ==
    IF lookup_ok THEN dest_identity ELSE {}

\* Line 811 / 846: the INSERT column list.
filtered_columns(cols, identity_columns) ==
    SelectSeq(cols, LAMBDA col : col \notin identity_columns)

\* The INSERT statement names a column the database generates itself.
SuppliesIdentity(cols) ==
    \E i \in 1..Len(cols) : cols[i] \in dest_identity

\* Lines 630-634 and 650-659: what the PostgreSQL source branch logs when the
\* insert of a page raises.
InsertError(logs, k, msg) ==
    IF source_kind = "postgresql"
    THEN TableError(Append(logs, LogLine("insert_failed", k, batch_num, 0, msg)),
                    k, msg)
    ELSE logs

\* Mutant of rollback: every executed row is committed at once (autocommit).
rollback_autocommit(executed) == executed

\* Rows of a page that stay in the destination when its executemany raised
\* after `executed` rows: the transaction is rolled back, by the except
\* clauses of the PostgreSQL branch (lines 882-911) and by the exit of
\* `with pyodbc.connect(...)` in the SQL Server branch (line 803), both
\* connections having autocommit off.
rollback(executed) == 0

\* Lines 556-571 / 618-642 with _insert_masked_data_sync (792-916): the page
\* is masked (_mask_rows returns one row per fetched row), then inserted with
\* one executemany + commit, then the counter and the progress line follow.
\* The executemany may raise at the first row of the page or at its last.
\* SQL Server refuses an explicit identity value; PostgreSQL takes it for a
\* serial column and refuses it for GENERATED ALWAYS.
InsertPage ==
    /\ pc = "insert"
    /\ \E lookup_ok \in BOOLEAN :
         LET k == table_mapping
             cols == filtered_columns(dest_columns,
                                      get_identity_columns(lookup_ok))
             f0 == IF lookup_ok THEN faults ELSE faults + 1
             done == records_processed + rows_len
             after_mask == Append(trace, [op |-> "mask", k |-> k, page |-> batch_num,
                                      len |-> rows_len, cols |-> <<>>])
         IN
         /\ lookup_ok \/ MayFault
         /\ \/ /\ ~SuppliesIdentity(cols) \/ dest_kind = "postgresql"
               /\ dest_rows' = [dest_rows EXCEPT ![k] = @ + rows_len]
               /\ dest_explicit' = [dest_explicit EXCEPT ![k] =
                                      IF SuppliesIdentity(cols)
                                      THEN @ + rows_len ELSE @]
               /\ trace' = Append(after_mask, [op |-> "insert", k |-> k,
                                          page |-> batch_num, len |-> rows_len,
                                          cols |-> cols])
               /\ records_processed' = done
               /\ execution_logs' = Append(execution_logs,
                        LogLine("batch", k, done, total_count, NoText))
               /\ faults' = f0
               /\ pc' = "progress"
               /\ UNCHANGED error
            \/ /\ SuppliesIdentity(cols) \/ f0 < MaxFaults
               /\ faults' = IF SuppliesIdentity(cols) THEN f0 ELSE f0 + 1
               /\ trace' = Append(after_mask, [op |-> "insert_failed", k |-> k,
                                          page |-> batch_num, len |-> rows_len,
                                          cols |-> cols])
               /\ execution_logs' = InsertError(execution_logs, k, "insert error")
               /\ Raise("insert error")
               /\ \E executed \in {0, rows_len - 1} :
                     dest_rows' = [dest_rows EXCEPT ![k] = @ + rollback(executed)]
               /\ UNCHANGED <<dest_explicit, records_processed>>
    /\ UNCHANGED <<flags, workflow_status, masking, pair,
                   response, requester,
                   executions, execution, loopvars, kinds, dest_identity,
                   total_count, cursor_pos, batch_num, rows_len, pending>>

\* Where the worker goes when _update_logs_sync is over: its except clause
\* (lines 498-499) takes every exception, the timeout of the wait included,
\* so the batch loop goes on to the next fetch whatever became of the update.
after_update_reraise(outcome) ==
    IF outcome = "applied" THEN "fetch" ELSE "except"

after_update(outcome) == "fetch"

\* _update_logs_sync, lines 480-499, called at line 574 / 645: the update is
\* scheduled on the loop and awaited for 10 s.  It is applied in time, or it
\* raises, or the wait times out and the coroutine stays scheduled.
ProgressUpdate ==
    /\ pc = "progress"
    /\ \/ /\ executions' = update_workflow_execution(executions, execution,
                     RUNNING, NoText, records_processed, execution_logs)
          /\ pc' = after_update("applied")
          /\ UNCHANGED <<pending, faults>>
       \/ /\ MayFault
          /\ faults' = faults + 1
          /\ pc' = after_update("raised")
          /\ UNCHANGED <<executions, pending>>
       \/ /\ MayFault
          /\ faults' = faults + 1
          /\ pending' = pending \cup {[execution_id |-> execution,
                                       records_processed |-> records_processed,
                                       execution_logs |-> execution_logs]}
          /\ pc' = after_update("timeout")
          /\ UNCHANGED executions
    /\ UNCHANGED <<flags, workflow_status, masking, pair,
                   response, requester,
                   execution,
                   execution_logs, error, loopvars, kinds, destvars, worker,
                   trace>>

\* The loop runs a scheduled coroutine while execute_workflow awaits.  Only
\* the order of the writes to the record matters, so the model takes it at the
\* awaits that precede the next write, and after the invocation has ended.
LoopIsFree == pc \in {"progress", "complete", "except", "returned", "raised"}

\* A progress update whose wait timed out runs on the loop at last.  (One
\* that raises, or never runs, stays in pending.)
LateUpdate ==
    /\ LoopIsFree
    /\ \E u \in pending :
         /\ pending' = pending \ {u}
         /\ executions' = update_workflow_execution(executions, u.execution_id,
                RUNNING, NoText, u.records_processed, u.execution_logs)
    /\ UNCHANGED <<flags, workflow_status, masking, pair,
                   response, requester,
                   pc, execution,
                   execution_logs, error, loopvars, kinds, destvars, worker,
                   trace, faults>>

\* Lines 237-244: the worker's result is added and the table's line logged.
FinishMapping ==
    /\ pc = "finish_mapping"
    /\ total_records' = total_records + records_processed
    /\ execution_logs' = Append(execution_logs,
                LogLine("processed", table_mapping, records_processed, 0, NoText))
    /\ idx' = idx + 1
    /\ pc' = "next_mapping"
    /\ UNCHANGED <<flags, workflow_status, masking, pair,
                   response, requester,
                   executions, execution, error, table_count, kinds,
                   destvars, worker, pending, trace, faults>>

\* Lines 246-255 and 283: the summary line and the COMPLETED update.
Complete ==
    /\ pc = "complete"
    /\ execution_logs' = Append(execution_logs,
                LogLine("completed", 0, total_records, 0, NoText))
    /\ \/ /\ executions' = update_workflow_execution(executions, execution,
                     COMPLETED, NoText, total_records, execution_logs')
          /\ pc' = "returned"
          /\ UNCHANGED <<error, faults>>
       \/ /\ MayFault
          /\ faults' = faults + 1
          /\ Raise("database error")
          /\ UNCHANGED executions
    /\ UNCHANGED <<flags, workflow_status, masking, pair,
                   response, requester,
                   execution, loopvars, kinds, destvars, worker,
                   pending, trace>>

\* Mutant of failed_destination: the except block empties the destinations.
failed_destination_emptied(rows) == 0

\* Lines 260-280: the except block issues no statement against a destination
\* table, and neither do the except clauses of the worker (lines 650-659):
\* the rows a table holds when the exception arrives are the rows it keeps.
failed_destination(rows) == rows

\* Lines 260-280: the except block.  A failure of the FAILED update is only
\* logged; the original exception is re-raised either way.
HandleFailure ==
    /\ pc = "except"
    /\ execution_logs' = Append(execution_logs,
                LogLine("failed", 0, 0, 0, error))
    /\ \/ /\ executions' = update_workflow_execution(executions, execution,
                     FAILED, error, None, execution_logs')
          /\ UNCHANGED faults
       \/ /\ MayFault
          /\ faults' = faults + 1
          /\ UNCHANGED executions
    /\ dest_rows' = [k \in DOMAIN dest_rows |-> failed_destination(dest_rows[k])]
    /\ pc' = "raised"
    /\ UNCHANGED <<flags, workflow_status, masking, pair,
                   response, requester,
                   execution, error, loopvars, kinds, dest_explicit,
                   dest_identity, worker, pending, trace>>

\* --------------------------------------------- POST /{workflow_id}/execute
Roles == {"admin", "data_engineer", "data_analyst", "viewer"}

\* check_permission(user, operation) of routes/workflow.py.
check_permission(role, operation) ==
    CASE role = "admin"         -> TRUE
      [] role = "data_engineer" -> operation \in {"create", "read", "update",
                                                  "delete", "execute"}
      [] role = "data_analyst"  -> operation \in {"read", "execute"}
      [] role = "viewer"        -> operation \in {"read"}
      [] OTHER                  -> FALSE

\* The positional parameters of create_workflow_execution, and the positional
\* arguments the route calls it with.
create_workflow_execution_params == <<"db", "workflow_id", "user_id">>
route_call_arguments ==
    <<"db", "workflow_id", "current_user.id", "WorkflowStatus.RUNNING">>

\* Python binds positional arguments to parameters; more arguments than
\* parameters is a TypeError.
binds(arguments, params) == Len(arguments) <= Len(params)

Answer(role, found, owner, status_code, execution_id) ==
    [role |-> role, found |-> found, owner |-> owner,
     status_code |-> status_code, execution_id |-> execution_id]

\* execute_masking_workflow: the checks, the execution record, the hand-off
\* to the background task (which then invokes execute_workflow).
execute_masking_workflow ==
    /\ pc = "invoke"
    /\ response = NoResponse
    /\ \E role \in Roles, found \in BOOLEAN, owner \in BOOLEAN :
         IF ~check_permission(role, "execute")
         THEN /\ response' = Answer(role, found, owner, 403, None)
              /\ pc' = "responded"
              /\ UNCHANGED executions
         ELSE IF ~found
         THEN /\ response' = Answer(role, found, owner, 404, None)
              /\ pc' = "responded"
              /\ UNCHANGED executions
         ELSE IF role # "admin" /\ ~owner
         THEN /\ response' = Answer(role, found, owner, 403, None)
              /\ pc' = "responded"
              /\ UNCHANGED executions
         ELSE IF ~binds(route_call_arguments, create_workflow_execution_params)
         THEN /\ response' = Answer(role, found, owner, 500, None)
              /\ pc' = "responded"
              /\ UNCHANGED executions
         ELSE /\ executions' = create_workflow_execution(executions)
              /\ response' = Answer(role, found, owner, 200,
                                     NextExecutionId(executions))
              /\ UNCHANGED pc
    /\ UNCHANGED <<flags, workflow_status, masking, pair,
                   requester, execution, execution_logs, error,
                   loopvars, kinds, destvars, worker, pending, trace, faults>>

Next ==
    \/ execute_masking_workflow
    \/ Invoke
    \/ LoadWorkflow
    \/ ResolveConnections
    \/ StartTables
    \/ NextMapping
    \/ ClearDestination
    \/ CountSource
    \/ FetchPage
    \/ InsertPage
    \/ ProgressUpdate
    \/ LateUpdate
    \/ FinishMapping
    \/ Complete
    \/ HandleFailure

Spec == Init /\ [][Next]_vars

\* ------------------------------------------------------------- a later run
\* execute_workflow is invoked again on a workflow whose earlier run has
\* ended FAILED: one table mapping, a SQL Server source of MaxFullPages full
\* pages and a row, the first page inserted, the insert of the second page
\* raised.  EarlierLogs is the log list that run built.
EarlierTotal == MaxFullPages * batch_size + 1

EarlierLogs ==
    <<LogLine("started", 0, 0, 0, NoText),
      LogLine("connected", 0, 0, 0, NoText),
      LogLine("starting", 0, 1, 0, NoText),
      LogLine("processing", 1, 0, 0, NoText),
      LogLine("clearing", 1, 0, 0, NoText),
      LogLine("cleared", 1, 0, 0, NoText),
      LogLine("count", 1, EarlierTotal, 0, NoText),
      LogLine("batch", 1, batch_size, EarlierTotal, NoText),
      LogLine("failed", 0, 0, 0, "insert error")>>

\* The progress update of the earlier run's first page, as scheduled by
\* _update_logs_sync.
EarlierUpdate ==
    [execution_id |-> NextExecutionId(<<>>), records_processed |-> batch_size,
     execution_logs |-> SubSeq(EarlierLogs, 1, Len(EarlierLogs) - 1)]

\* The record the earlier run left: its progress update was applied in time,
\* or its wait timed out and the FAILED update found the count still 0.
EarlierRecord(applied) ==
    [status |-> FAILED, completed_at |-> TRUE, error_message |-> "insert error",
     records_processed |-> IF applied THEN batch_size ELSE 0,
     execution_logs |-> EarlierLogs]

RerunInit ==
    /\ PYODBC_AVAILABLE = TRUE
    /\ PSYCOPG2_AVAILABLE \in BOOLEAN
    /\ \E applied \in BOOLEAN :
         /\ executions = <<EarlierRecord(applied)>>
         /\ pending = IF applied THEN {} ELSE {EarlierUpdate}
    /\ dest_rows = [k \in 1..MaxMappings |-> IF k = 1 THEN batch_size ELSE PreRows]
    /\ workflow_status = "draft"
    /\ pc = "invoke"
    /\ execution = None
    /\ execution_logs = <<>>
    /\ error = NoText
    /\ table_count = 0
    /\ idx = 0
    /\ total_records = 0
    /\ source_kind = NoText
    /\ dest_kind = NoText
    /\ dest_explicit = [k \in 1..MaxMappings |-> 0]
    /\ dest_identity = {}
    /\ total_count = 0
    /\ cursor_pos = 0
    /\ batch_num = 0
    /\ rows_len = 0
    /\ records_processed = 0
    /\ trace = <<>>
    /\ faults = 0
    /\ requester = NoText
    /\ response = NoResponse
    /\ today = 0
    /\ masked_cells = <<>>
    /\ mask_pc = "idle"
    /\ column_mappings = <<>>
    /\ total_rows = 0
    /\ row_num = 0
    /\ col_index = 0
    /\ warnings = <<>>
    /\ inserted = NoInsert
    /\ runs = [w \in Workflows |-> IdleRun]
    /\ tables = [t \in Tables |->
                    [o \in Workflows \cup {NoWorkflow} |->
                        IF o = NoWorkflow THEN PreRows ELSE 0]]

RerunSpec == RerunInit /\ [][Next]_vars

\* ---------------------------------------------------------------- masking
\* The masker on its own: _mask_rows is handed one page whose cells are
\* drawn from small sets, and the clock may pass midnight at any point.

\* str() of the non-null cell values, and the seed hash_seed gives each:
\* int(sha256(text).hexdigest(), 16) % 10**8.
Values == {"Alice", ""}

hash_seed(text) ==
    CASE text = "Alice"      -> 38781507
      [] text = "1990-05-17" -> 52534809
      [] text = ""           -> 65086549

\* A source cell: SQL NULL (Python None), or a value with its str().
SourceCells ==
    {[null |-> TRUE, text |-> NoText]}
    \cup {[null |-> FALSE, text |-> t] : t \in Values}

\* A fresh generator is the seed it was given.
get_deterministic_faker(seed_value) == [seed |-> seed_value]

\* Faker's date_of_birth() with its default ages 0..115: a date drawn from
\* the window that ends on the day of the call (a year taken as 365 days);
\* randint(a, b) of the seeded generator is a plus a draw below b - a + 1.
BirthWindow == 116 * 365

date_of_birth(fake, now) ==
    LET start_date == now - BirthWindow
        dob        == start_date + (fake.seed % (BirthWindow + 1))
    IN  IF dob # start_date THEN dob ELSE dob + 1

\* Keys of self.pii_mapping that stand for the rest: two generators that
\* draw from fixed lists, and the one that draws a date.
PiiKeys == {"name", "ssn", "date_of_birth"}

NoOutput == [method |-> NoText, seed |-> None, date |-> None]

\* self.pii_mapping[key](val)
pii_mapping(key, val, now) ==
    LET fake == get_deterministic_faker(hash_seed(val))
    IN  [method |-> key, seed |-> fake.seed,
         date   |-> IF key = "date_of_birth" THEN date_of_birth(fake, now)
                    ELSE None]

\* Column mappings a table mapping may hold: (is_pii, pii_attribute).
ColumnMappings ==
    {[is_pii |-> FALSE, pii_attribute |-> NoText],
     [is_pii |-> TRUE,  pii_attribute |-> NoText],
     [is_pii |-> TRUE,  pii_attribute |-> "nickname"]}
    \cup {[is_pii |-> TRUE, pii_attribute |-> key] : key \in PiiKeys}

\* The source columns of the table mapping, one column mapping each.
source_columns == <<"name", "dob">>

\* models.mapping.PII_ATTRIBUTES, as far as PiiKeys and the column mappings
\* above reach ("nickname" is in neither list).
PII_ATTRIBUTES == {"name", "ssn", "date_of_birth"}

\* create_workflow and update_workflow store the column mappings of the
\* request as they are: is_pii and pii_attribute are copied field by field.
create_workflow(request) ==
    [c \in DOMAIN request |->
        [is_pii        |-> request[c].is_pii,
         pii_attribute |-> request[c].pii_attribute]]

\* if masked_row[i] is None or str(masked_row[i]).strip() == "" (no value
\* of Values has surrounding blanks, so strip() leaves it as it is).
is_blank_none_only(cell) == cell.null

is_blank(cell) == cell.null \/ cell.text = ""

\* The two ifs that guard the masking of a column.
is_masked_column(col_mapping) ==
    /\ col_mapping.is_pii
    /\ col_mapping.pii_attribute # NoText
    /\ col_mapping.pii_attribute \in PiiKeys

\* What _mask_rows did with a cell: replaced tells whether masked_row[i] was
\* assigned and out what it was assigned, raised whether the masking call
\* threw.
Cell(cell, col_mapping, replaced, raised, out) ==
    [row |-> row_num, col |-> col_index,
     null |-> cell.null, value |-> cell.text,
     is_pii |-> col_mapping.is_pii,
     pii_attribute |-> col_mapping.pii_attribute,
     replaced |-> replaced, raised |-> raised, out |-> out]

\* Where the loops go after a cell: the except clause is inside the column
\* loop, so a masking call that raised is followed by the next column too.
next_cell_abort_row(raised) ==
    IF raised \/ col_index = Len(source_columns)
    THEN <<row_num + 1, 1>>
    ELSE <<row_num, col_index + 1>>

next_cell(raised) ==
    IF col_index < Len(source_columns)
    THEN <<row_num, col_index + 1>>
    ELSE <<row_num + 1, 1>>

MaskInit ==
    /\ Init
    /\ PYODBC_AVAILABLE
    /\ PSYCOPG2_AVAILABLE
    /\ executions = <<>>

\* _mask_rows(rows, table_mapping) is called with a fetched page.
StartPage ==
    /\ mask_pc = "idle"
    /\ \E request \in [1..Len(source_columns) -> ColumnMappings] :
         column_mappings' = create_workflow(request)
    /\ total_rows' \in 1..MaxRows
    /\ row_num' = 1
    /\ col_index' = 1
    /\ mask_pc' = "cells"
    /\ UNCHANGED <<engine, pair, today, masked_cells, warnings, inserted>>

\* One pass of the inner loop: column col_index of row row_num.
MaskCell ==
    /\ mask_pc = "cells"
    /\ row_num <= total_rows
    /\ \E cell \in SourceCells, raises \in BOOLEAN :
         LET col_mapping == column_mappings[col_index]
             called == is_masked_column(col_mapping) /\ ~is_blank(cell)
         IN  /\ raises => called
             /\ masked_cells' = Append(masked_cells,
                    IF called /\ ~raises
                    THEN Cell(cell, col_mapping, TRUE, FALSE,
                              pii_mapping(col_mapping.pii_attribute, cell.text, today))
                    ELSE Cell(cell, col_mapping, FALSE, raises, NoOutput))
             /\ warnings' = IF raises
                            THEN Append(warnings, source_columns[col_index])
                            ELSE warnings
             /\ row_num' = next_cell(raises)[1]
             /\ col_index' = next_cell(raises)[2]
    /\ UNCHANGED <<engine, pair, today, mask_pc, column_mappings, total_rows,
                   inserted>>

\* return masked_rows
MaskReturn ==
    /\ mask_pc = "cells"
    /\ row_num > total_rows
    /\ mask_pc' = "returned"
    /\ UNCHANGED <<engine, pair, today, masked_cells, warnings, column_mappings,
                   total_rows, row_num, col_index, inserted>>

\* The destination column of each column mapping of the page (the
\* `columns` argument of _insert_masked_data_sync), and the identity columns
\* _get_identity_columns may report for that table.
columns == <<"id", "birth_date">>
PageIdentityChoices == {{}, {"id"}, {"id", "birth_date"}}

\* masked_rows[r]: the cells of row r in column order, each with the value
\* _mask_rows left in it.
masked_row(r) ==
    [c \in 1..Len(source_columns) |->
        LET cell == masked_cells[(r - 1) * Len(source_columns) + c]
        IN  [col |-> c, null |-> cell.null,
             value |-> IF cell.replaced THEN cell.out
                       ELSE [method |-> NoText, seed |-> None, date |-> None,
                             original |-> cell.value]]]

\* Lines 814 / 849: positions of the identity columns in `columns`.
identity_indices(identity_columns) ==
    {i \in 1..Len(columns) : columns[i] \in identity_columns}

\* Mutant of filtered_row: the values of identity columns stay in the row.
filtered_row_unstripped(row, identity_columns) == row

\* Lines 817-820 / 852-855: the row without the values at those positions.
filtered_row(row, identity_columns) ==
    LET keep[n \in 0..Len(row)] ==
            IF n = 0 THEN <<>>
            ELSE IF n \in identity_indices(identity_columns)
                 THEN keep[n - 1]
                 ELSE Append(keep[n - 1], row[n])
    IN  keep[Len(row)]

\* _insert_masked_data_sync is handed the page _mask_rows returned: the
\* column list and the rows of the INSERT it builds (lines 806-826).
BuildInsert ==
    /\ mask_pc = "returned"
    /\ \E identity_columns \in PageIdentityChoices :
         inserted' =
            [filtered_columns |-> filtered_columns(columns, identity_columns),
             filtered_data    |-> [r \in 1..total_rows |->
                                      filtered_row(masked_row(r), identity_columns)]]
    /\ mask_pc' = "inserted"
    /\ UNCHANGED <<engine, pair, today, masked_cells, warnings, column_mappings,
                   total_rows, row_num, col_index>>

\* The clock passes midnight.
NewDay ==
    /\ today < MaxDays
    /\ today' = today + 1
    /\ UNCHANGED <<engine, pair, masked_cells, maskloop, warnings, inserted>>

MaskNext ==
    \/ StartPage
    \/ MaskCell
    \/ MaskReturn
    \/ NewDay

MaskSpec == MaskInit /\ [][MaskNext]_vars

\* A page is masked and handed to the insert, all on one day.
PageNext ==
    \/ StartPage
    \/ MaskCell
    \/ MaskReturn
    \/ BuildInsert

PageSpec == MaskInit /\ [][PageNext]_vars

\* ------------------------------------------------- concurrent executions
\* Two executions of different workflows run at the same time, each with one
\* table mapping; their workers' clear, fetch and insert steps interleave.
\* Each step opens a connection of its own.

\* Row counts of the two source tables.
PairSizes == {1, batch_size + 1}

\* Both workflows are executed: create_workflow stores whatever destination
\* table a table mapping names, so the two may name the same one.
PairInvoke ==
    /\ \A w \in Workflows : runs[w].pc = "idle"
    /\ runs' \in [Workflows ->
                    {[pc |-> "clear", destination_table |-> t, total_count |-> n,
                      cursor_pos |-> 0, rows_len |-> 0, records_processed |-> 0] :
                        t \in Tables, n \in PairSizes}]
    /\ UNCHANGED <<engine, masking, tables>>

\* _clear_destination_table (758-790): DELETE FROM the table, whoever
\* inserted its rows.
PairClear(w) ==
    /\ runs[w].pc = "clear"
    /\ tables' = [tables EXCEPT ![runs[w].destination_table] =
                      [o \in DOMAIN @ |-> clear_sync(@[o])]]
    /\ runs' = [runs EXCEPT ![w].pc = "fetch"]
    /\ UNCHANGED <<engine, masking>>

\* Lines 548-554: the next page of the worker's own cursor; an empty page
\* ends the copy and the execution is COMPLETED.
PairFetch(w) ==
    /\ runs[w].pc = "fetch"
    /\ LET rest == runs[w].total_count - runs[w].cursor_pos
           n    == IF rest < batch_size THEN rest ELSE batch_size
       IN  runs' = [runs EXCEPT ![w] =
                      IF n = 0
                      THEN [@ EXCEPT !.pc = COMPLETED]
                      ELSE [@ EXCEPT !.pc = "insert", !.rows_len = n,
                                     !.cursor_pos = @ + n]]
    /\ UNCHANGED <<engine, masking, tables>>

\* Lines 556-565: the page is masked and inserted, the counter follows.
PairInsert(w) ==
    /\ runs[w].pc = "insert"
    /\ tables' = [tables EXCEPT ![runs[w].destination_table][w] =
                      @ + runs[w].rows_len]
    /\ runs' = [runs EXCEPT ![w].pc = "fetch",
                            ![w].records_processed = @ + runs[w].rows_len]
    /\ UNCHANGED <<engine, masking>>

PairNext ==
    \/ PairInvoke
    \/ \E w \in Workflows : PairClear(w)
    \/ \E w \in Workflows : PairFetch(w)
    \/ \E w \in Workflows : PairInsert(w)

PairSpec == MaskInit /\ [][PairNext]_vars

\* ------------------------------------------------------------ properties
\* The invocation is over: execute_workflow has returned or raised.
Ended == pc \in {"returned", "raised"}

Terminal == {COMPLETED, FAILED}

Last(seq) == seq[Len(seq)]

\* Positions of the trace that belong to table mapping k and have operation op.
Events(k, op) == {i \in 1..Len(trace) : trace[i].k = k /\ trace[i].op = op}

\* Rows of the events of table mapping k with operation op among the first n
\* events of the trace.
RECURSIVE SumLen(_, _, _)
SumLen(k, op, n) ==
    IF n = 0 THEN 0
    ELSE SumLen(k, op, n - 1)
         + (IF trace[n].k = k /\ trace[n].op = op THEN trace[n].len ELSE 0)

\* Rows committed to the destination of table mapping k by this run.
Inserted(k) == SumLen(k, "insert", Len(trace))

\* Rows committed to all destinations by this run.
RECURSIVE InsertedUpTo(_)
InsertedUpTo(k) == IF k = 0 THEN 0 ELSE InsertedUpTo(k - 1) + Inserted(k)

\* The record of this invocation, once `execution` is bound.
Record == executions[execution]

LastTag(logs) == IF logs = <<>> THEN NoText ELSE Last(logs).tag

Logged(tag) == \E i \in 1..Len(execution_logs) : execution_logs[i].tag = tag

\* str(e) of the exceptions raised by the setup steps, lines 162-211.
SetupErrors ==
    {"Workflow not found", "Unauthorized to execute this workflow",
     "Source or destination connection not found",
     "Failed to decrypt connection passwords", "pyodbc is not available",
     "No compatible SQL Server ODBC driver found", "Unsupported connection type"}

\* str(e) of the exceptions raised out of _process_table_mapping.
MappingErrors ==
    {"clear failed", "source error", "insert error",
     "name 'psycopg2' is not defined"}

\* No table mapping after the one the loop is at has been touched.
LaterMappingsUntouched ==
    \A k \in 1..MaxMappings :
        k > idx + 1 => /\ \A i \in 1..Len(trace) : trace[i].k # k
                       /\ dest_rows[k] = PreRows

\* C1: every invocation of execute_workflow ends (returns or raises) with an
\* execution record of its own persisted in a terminal status, COMPLETED or
\* FAILED; none ends with its record left RUNNING.
C1_EndsTerminal ==
    Ended => /\ executions # <<>>
             /\ \A id \in DOMAIN executions : executions[id].status \in Terminal

\* C2: once the record's status is COMPLETED or FAILED, no later step changes
\* the record.
C2_ImmutableOnceTerminal ==
    [][\A id \in DOMAIN executions :
          executions[id].status \in Terminal => executions'[id] = executions[id]]_vars

\* C3: when processing of a table mapping has failed, the execution is FAILED
\* with the error message captured and the failure line last in its log, and
\* no later table mapping has been cleared, read or inserted into.
C3_MappingFailureStops ==
    (pc = "raised" /\ error \in MappingErrors) =>
        /\ Record.status = FAILED
        /\ Record.error_message = error
        /\ LastTag(Record.execution_logs) = "failed"
        /\ LaterMappingsUntouched

\* The part of C3 the code keeps: after a mapping failure the loop is left and
\* no later table mapping is touched.
C3_LoopStops ==
    (pc \in {"except", "raised"} /\ error \in MappingErrors) =>
        LaterMappingsUntouched

\* C4: when execute_workflow has returned (every table mapping was processed
\* and nothing raised), the execution is COMPLETED, records_processed is the
\* sum of the rows copied per table mapping, and the summary line is the last
\* line of the log.
C4_CompletedWithSum ==
    pc = "returned" =>
        /\ Record.status = COMPLETED
        /\ Record.records_processed = InsertedUpTo(MaxMappings)
        /\ LastTag(Record.execution_logs) = "completed"

\* The trace only grows, by one event or by two (mask, insert) per step, so a
\* condition on its two newest events that holds in every reachable state
\* holds for every event of every run.
Newest == {j \in {Len(trace) - 1, Len(trace)} : j >= 1}

\* C5: table mappings are processed in declared order, one at a time (the
\* mapping of an event is never earlier than that of the event before it, and
\* a clear follows only events of earlier mappings), and page n+1 is fetched
\* only after page n was masked and then inserted.
C5_Ordering ==
    \A j \in Newest :
        /\ trace[j].k >= 1 /\ trace[j].k <= idx + 1
        /\ j > 1 => trace[j - 1].k <= trace[j].k
        /\ (j > 1 /\ trace[j].op = "clear") => trace[j - 1].k < trace[j].k
        /\ (trace[j].op = "fetch" /\ trace[j].page > 1) =>
              /\ j > 2
              /\ trace[j - 1].k = trace[j].k /\ trace[j - 2].k = trace[j].k
              /\ trace[j - 1].op = "insert" /\ trace[j - 1].page = trace[j].page - 1
              /\ trace[j - 2].op = "mask" /\ trace[j - 2].page = trace[j].page - 1

\* C5 witness: the second table mapping has been cleared after the first one
\* was copied in two or more pages.
C5_Witness ==
    /\ Events(2, "clear") # {}
    /\ \E i \in Events(1, "insert") : trace[i].page = 2

\* C6: after a failed setup step the execution is FAILED with the error
\* message and the failure line in its log, and no table copy has started.
C6_SetupFailure ==
    (pc = "raised" /\ error \in SetupErrors) =>
        /\ Record.status = FAILED
        /\ Record.error_message = error
        /\ LastTag(Record.execution_logs) = "failed"
        /\ trace = <<>>
        /\ \A k \in 1..MaxMappings : dest_rows[k] = PreRows

\* The part of C6 the code keeps: a failed setup step starts no table copy.
C6_NoCopyStarted ==
    (pc \in {"except", "raised"} /\ error \in SetupErrors) =>
        /\ trace = <<>>
        /\ \A k \in 1..MaxMappings : dest_rows[k] = PreRows

\* The worker is between the clear of the current table mapping and the
\* return of its copy.
InCopy == pc \in {"count", "fetch", "insert", "progress", "finish_mapping"}

\* C7: per table mapping the events follow clear (fetch mask insert)*: the
\* clear is the first event of its mapping, so it is committed before the
\* first insert and none follows an insert; during the copy the trace holds
\* exactly one clear of the mapping, and the destination holds exactly the
\* rows this run has inserted since.
C7_ClearOncePerMapping ==
    /\ \A j \in Newest :
          /\ trace[j].op = "clear" => (j = 1 \/ trace[j - 1].k < trace[j].k)
          /\ trace[j].op # "clear" => (j > 1 /\ trace[j - 1].k = trace[j].k)
          /\ trace[j].op = "fetch" => trace[j - 1].op \in {"clear", "insert"}
          /\ trace[j].op = "mask" =>
                (trace[j - 1].op = "fetch" /\ trace[j - 1].page = trace[j].page)
          /\ trace[j].op \in {"insert", "insert_failed"} =>
                (trace[j - 1].op = "mask" /\ trace[j - 1].page = trace[j].page)
    /\ InCopy =>
          /\ Cardinality(Events(idx + 1, "clear")) = 1
          /\ dest_rows[idx + 1] = Inserted(idx + 1)

\* C7 witness: a destination was cleared and then received two pages.
C7_Witness ==
    \E k \in 1..MaxMappings :
        /\ Events(k, "clear") # {}
        /\ Cardinality(Events(k, "insert")) >= 2

CeilDiv(n, p) == (n + p - 1) \div p

\* C8: a finished copy of a source table of N > 0 rows has made ceil(N/P)
\* non-empty page fetches of at most P rows each, and returns N; for
\* N = 2P + 1 that is two full pages and one page of one row.
C8_PageBoundary ==
    (pc = "finish_mapping" /\ total_count > 0) =>
        LET fetches == Events(idx + 1, "fetch") IN
        /\ Cardinality(fetches) = CeilDiv(total_count, batch_size)
        /\ \A i \in fetches : trace[i].len >= 1 /\ trace[i].len <= batch_size
        /\ SumLen(idx + 1, "fetch", Len(trace)) = total_count
        /\ records_processed = total_count
        /\ total_count = 2 * batch_size + 1 =>
              /\ Cardinality(fetches) = 3
              /\ \A i \in fetches :
                    trace[i].len = IF trace[i].page = 3 THEN 1 ELSE batch_size

\* C8 witness: a table of 2P + 1 rows has been copied in three pages.
C8_Witness ==
    /\ pc = "finish_mapping"
    /\ total_count = 2 * batch_size + 1
    /\ batch_num = 3

\* C9: no INSERT names an identity column of the destination table, and no
\* committed row carries a supplied identity value.
C9_IdentityExcluded ==
    /\ \A i \in 1..Len(trace) :
          trace[i].op \in {"insert", "insert_failed"} =>
              \A c \in 1..Len(trace[i].cols) : trace[i].cols[c] \notin dest_identity
    /\ \A k \in 1..MaxMappings : dest_explicit[k] = 0

\* The part of C9 the code keeps: when the identity lookup succeeds, the
\* INSERT names no identity column (faults exclude a failed lookup here).
C9_ExcludedWhenLookupWorks ==
    faults = 0 => C9_IdentityExcluded

\* Two masking calls agree on the cell value and on the PII category.
SameInput(a, b) ==
    /\ a.replaced /\ b.replaced
    /\ a.value = b.value
    /\ a.pii_attribute = b.pii_attribute

\* C10: any two masking calls on the same original value and PII category,
\* on whichever service instance and in whichever run, give the same output.
C10_Deterministic ==
    \A i, j \in 1..Len(masked_cells) :
        SameInput(masked_cells[i], masked_cells[j]) => masked_cells[i].out = masked_cells[j].out

\* The part of C10 the code keeps: two such calls agree on the generator
\* and its seed, and their dates differ by no more than the clock moved.
C10_SameSeedAndMethod ==
    \A i, j \in 1..Len(masked_cells) :
        SameInput(masked_cells[i], masked_cells[j])
            => /\ masked_cells[i].out.method = masked_cells[j].out.method
               /\ masked_cells[i].out.seed = masked_cells[j].out.seed
               /\ masked_cells[i].out.date - masked_cells[j].out.date
                      \in (0 - MaxDays)..MaxDays

\* The cell handled n-th and its place in the page.
RowOf(n) == ((n - 1) \div Len(source_columns)) + 1
ColOf(n) == ((n - 1) % Len(source_columns)) + 1

BlankCell(c) == c.null \/ c.value = ""

MaskedColumn(c) == c.is_pii /\ c.pii_attribute \in PiiKeys

\* C11: a cell whose original value is null or the empty string is never
\* assigned by _mask_rows, whatever the column's PII category: it is written
\* as it was read and no masking call is made for it.
C11_BlankPassThrough ==
    \A n \in 1..Len(masked_cells) :
        BlankCell(masked_cells[n])
            => /\ ~masked_cells[n].replaced
               /\ ~masked_cells[n].raised
               /\ masked_cells[n].out = NoOutput

\* A null cell and an empty cell, each in a column with a PII category.
C11_Witness ==
    /\ \E n \in 1..Len(masked_cells) :
          masked_cells[n].null /\ MaskedColumn(masked_cells[n])
    /\ \E n \in 1..Len(masked_cells) :
          /\ ~masked_cells[n].null /\ masked_cells[n].value = ""
          /\ MaskedColumn(masked_cells[n])

\* C12: a masking call that raises aborts nothing: the cell keeps its
\* original value, every cell of the page is still handled in row and column
\* order, every other non-blank cell of a PII column is still masked, and
\* _mask_rows returns the whole page to the caller that inserts it.
C12_RaiseNeverAborts ==
    /\ \A n \in 1..Len(masked_cells) :
          /\ masked_cells[n].row = RowOf(n)
          /\ masked_cells[n].col = ColOf(n)
          /\ masked_cells[n].raised => ~masked_cells[n].replaced
          /\ (MaskedColumn(masked_cells[n]) /\ ~BlankCell(masked_cells[n])
                /\ ~masked_cells[n].raised) => masked_cells[n].replaced
    /\ mask_pc = "cells" =>
          /\ row_num = RowOf(Len(masked_cells) + 1)
          /\ col_index = ColOf(Len(masked_cells) + 1)
    /\ mask_pc = "returned" =>
          Len(masked_cells) = total_rows * Len(source_columns)

\* The first cell of a two-row page raised, and a later cell of its row and
\* a cell of the next row were masked before the page was returned.
C12_Witness ==
    /\ mask_pc = "returned"
    /\ total_rows >= 2
    /\ masked_cells[1].raised
    /\ masked_cells[2].replaced
    /\ \E n \in 1..Len(masked_cells) :
          masked_cells[n].row = 2 /\ masked_cells[n].replaced

\* C13: every cell left unmasked because its masking call raised has a
\* warning line naming its column in the execution's log.
C13_WarningInExecutionLog ==
    \A n \in 1..Len(masked_cells) :
        masked_cells[n].raised =>
            \E l \in 1..Len(execution_logs) :
                execution_logs[l].msg = source_columns[masked_cells[n].col]

\* The part of C13 the code keeps: the warning is sent to the process
\* logger, one line per raising cell, naming the column.
C13_WarningInProcessLog ==
    /\ Len(warnings) = Cardinality({n \in 1..Len(masked_cells) : masked_cells[n].raised})
    /\ \A n \in 1..Len(masked_cells) :
          masked_cells[n].raised =>
              \E l \in 1..Len(warnings) :
                  warnings[l] = source_columns[masked_cells[n].col]

\* C14: every column mapping an execution sees with its PII flag set has a
\* PII category of the known set.
C14_StoredCategoryKnown ==
    \A c \in DOMAIN column_mappings :
        column_mappings[c].is_pii
            => column_mappings[c].pii_attribute \in PII_ATTRIBUTES

\* C15: execute_workflow on a workflow that has no table mapping never
\* brings its execution to COMPLETED.
C15_EmptyWorkflowNotCompleted ==
    (execution # None /\ pc \notin {"invoke", "load_workflow"} /\ table_count = 0)
        => Record.status # COMPLETED

\* C16: the ownership validation of execute_workflow fails exactly for a
\* requester who neither owns the workflow nor is an admin; such a run ends
\* FAILED with no table touched, and an admin who is not the owner passes.
C16_OwnerOrAdminPasses ==
    requester # NoText =>
        /\ (error = Unauthorized) <=> (requester \notin {"owner", "admin"})
        /\ (requester = "other" /\ Ended)
              => (Record.status = FAILED /\ trace = <<>>)

\* The part of C16 the code keeps: a requester who is not the owner never
\* gets a table touched.
C16_NonOwnerTouchesNothing ==
    (requester \notin {NoText, "owner"}) => (error = Unauthorized /\ trace = <<>>)

\* A request the route has no reason to refuse: the role may execute, the
\* workflow exists, and the user owns it or is an admin.
Acceptable(r) ==
    /\ check_permission(r.role, "execute")
    /\ r.found
    /\ r.role = "admin" \/ r.owner

\* C17: an acceptable execute request is answered with the id of an
\* execution record that is committed, with status RUNNING, when the answer
\* is given.
C17_RecordBeforeResponse ==
    [][(response = NoResponse /\ response' # NoResponse /\ Acceptable(response'))
          => /\ response'.status_code = 200
             /\ response'.execution_id \in DOMAIN executions'
             /\ executions'[response'.execution_id].status = RUNNING]_vars

\* C18: every update of the record that the run makes with a count persists
\* the number of rows inserted so far over all table mappings, so the
\* persisted counter never decreases.
C18_CumulativeCounter ==
    [][(pc \in {"progress", "complete"} /\ pc' # pc /\ executions' # executions)
          => /\ executions'[execution].records_processed
                    = InsertedUpTo(MaxMappings)
             /\ executions'[execution].records_processed
                    >= executions[execution].records_processed]_vars

IsPrefix(old, new) ==
    /\ Len(old) <= Len(new)
    /\ SubSeq(new, 1, Len(old)) = old

\* C19: whenever the persisted execution_logs change, the old list is a
\* prefix of the new one.
C19_LogAppendOnly ==
    [][\A id \in DOMAIN executions :
          id \in DOMAIN executions' =>
              IsPrefix(executions[id].execution_logs,
                       executions'[id].execution_logs)]_vars

\* C20: whatever becomes of a per-page progress update - applied, raised or
\* timed out - the worker goes on to the next fetch with its count, its log
\* and no error; and the COMPLETED update persists the number of rows
\* inserted over all table mappings.
C20_ProgressFailureContinues ==
    [][/\ (pc = "progress" /\ pc' # pc)
            => /\ pc' = "fetch"
               /\ records_processed' = records_processed
               /\ execution_logs' = execution_logs
               /\ error' = error
       /\ (pc = "complete" /\ pc' = "returned")
            => /\ executions'[execution].status = COMPLETED
               /\ executions'[execution].records_processed
                      = InsertedUpTo(MaxMappings)]_vars

\* A run whose progress update timed out has returned with its record
\* COMPLETED and the full count.
C20_Witness ==
    /\ pc = "returned"
    /\ pending # {}
    /\ Record.status = COMPLETED
    /\ Record.records_processed = InsertedUpTo(MaxMappings)
    /\ Record.records_processed > 0

\* C21: a source table whose count is zero is logged with the count line and
\* the warning line, gets no page fetched, masked or inserted, returns 0
\* records (the "processed" line of the caller says 0), and the run goes on:
\* the next log line belongs to the next table mapping or is the summary.
C21_EmptySourceShortCircuits ==
    /\ \A i \in 1..Len(execution_logs) :
          (execution_logs[i].tag = "count" /\ execution_logs[i].n = 0) =>
              LET k == execution_logs[i].k IN
              /\ i < Len(execution_logs)
              /\ execution_logs[i + 1] = LogLine("empty", k, 0, 0, NoText)
              /\ \A j \in 1..Len(trace) : trace[j].k = k => trace[j].op = "clear"
              /\ i + 1 < Len(execution_logs) =>
                    execution_logs[i + 2] = LogLine("processed", k, 0, 0, NoText)
              /\ i + 2 < Len(execution_logs) =>
                    \/ execution_logs[i + 3] = LogLine("processing", k + 1, 0, 0, NoText)
                    \/ execution_logs[i + 3].tag = "completed"
    /\ (pc = "finish_mapping" /\ total_count = 0) =>
          /\ records_processed = 0
          /\ error = NoText

\* The first source table was empty and the second one has had a page
\* inserted.
C21_Witness ==
    /\ \E i \in 1..Len(execution_logs) :
          /\ execution_logs[i].tag = "empty"
          /\ execution_logs[i].k = 1
    /\ Events(2, "insert") # {}

\* C22: a page insert that raises commits none of the page's rows: the
\* destination table holds after the failure exactly the rows it held when
\* the insert of the page began (and so do all other tables).
C22_InsertAtomic ==
    [][(pc = "insert" /\ pc' = "except") => dest_rows' = dest_rows]_vars

\* The insert of the second page, a full one, failed: the destination holds
\* the first page only.
C22_Witness ==
    /\ pc = "except"
    /\ trace # <<>>
    /\ Last(trace).op = "insert_failed"
    /\ Last(trace).page = 2
    /\ Last(trace).len = batch_size
    /\ dest_rows[Last(trace).k] = batch_size

\* The source row count the worker logged for table mapping k.
Counted(k) ==
    LET i == CHOOSE i \in 1..Len(execution_logs) :
                 execution_logs[i].tag = "count" /\ execution_logs[i].k = k
    IN  execution_logs[i].n

\* C23: when the insert of page p of a table mapping has failed, then - while
\* the exception is handled and after the run has ended - the destination of
\* that mapping holds exactly the p - 1 pages inserted before (nothing of its
\* pre-run content), and the destination of every mapping copied earlier in
\* the run holds its full copy.
C23_NoCleanupAfterFailure ==
    (pc \in {"except", "raised"} /\ error = "insert error") =>
        /\ Last(trace).op = "insert_failed"
        /\ Last(trace).k = idx + 1
        /\ dest_rows[idx + 1] = (Last(trace).page - 1) * batch_size
        /\ dest_rows[idx + 1] = Inserted(idx + 1)
        /\ \A k \in 1..idx :
              /\ dest_rows[k] = Counted(k)
              /\ dest_rows[k] = Inserted(k)

\* The run has ended after the second page of the second table mapping
\* failed to insert; the first mapping had rows.
C23_Witness ==
    /\ pc = "raised"
    /\ error = "insert error"
    /\ idx = 1
    /\ Last(trace).page = 2
    /\ dest_rows[1] > 0
    /\ dest_rows[2] = batch_size

\* C24: once the later run of the workflow has copied its tables and
\* returned with a record of its own COMPLETED, the record of the earlier FAILED execution is still
\* what that execution left, and nothing changes it.
C24_FailedRunIsolated ==
    [][(pc = "returned" /\ executions[execution].status = COMPLETED
           /\ total_records > 0)
          => /\ execution # NextExecutionId(<<>>)
             /\ executions[NextExecutionId(<<>>)]
                    \in {EarlierRecord(TRUE), EarlierRecord(FALSE)}
             /\ executions'[NextExecutionId(<<>>)]
                    = executions[NextExecutionId(<<>>)]]_vars

\* The part of C24 the code keeps: the later run writes to a record of its
\* own only, and returns with that record COMPLETED, unless an update
\* whose wait timed out is applied late.
C24_OwnRecordOnly ==
    [][pending = {} =>
          /\ \A id \in DOMAIN executions :
                id # execution' => executions'[id] = executions[id]
          /\ (pc = "complete" /\ pc' = "returned")
                => executions'[execution].status = COMPLETED]_vars

\* C25: when a connection of the workflow has an unsupported kind, the
\* execution never starts: its record never holds the "started" line.
C25_UnsupportedNeverStarts ==
    (execution # None /\ error = "Unsupported connection type") =>
        \A i \in 1..Len(Record.execution_logs) :
            Record.execution_logs[i].tag # "started"

\* The part of C25 the code keeps: with an unsupported kind no table is
\* touched and the run does not return.
C25_UnsupportedCopiesNothing ==
    error = "Unsupported connection type" =>
        /\ pc \in {"except", "raised"}
        /\ trace = <<>>
        /\ \A k \in 1..MaxMappings : dest_rows[k] = PreRows

\* C26: the page _mask_rows returns has every row of the page, each with one
\* cell per column mapping in column order, the cells of columns without the
\* PII flag as they were read; and each row of the INSERT built from it has
\* one value per column of the INSERT column list, the value at position i
\* being the one read for the column at position i.
C26_PositionalCorrespondence ==
    /\ mask_pc \in {"returned", "inserted"} =>
          /\ Len(masked_cells) = total_rows * Len(source_columns)
          /\ \A r \in 1..total_rows :
                /\ Len(masked_row(r)) = Len(source_columns)
                /\ \A c \in 1..Len(source_columns) :
                      LET cell == masked_cells[(r - 1) * Len(source_columns) + c]
                      IN  /\ cell.row = r /\ cell.col = c
                          /\ (~cell.is_pii) => ~cell.replaced
    /\ mask_pc = "inserted" =>
          /\ Len(inserted.filtered_data) = total_rows
          /\ \A r \in 1..total_rows :
                LET row == inserted.filtered_data[r] IN
                /\ Len(row) = Len(inserted.filtered_columns)
                /\ \A i \in 1..Len(row) :
                      /\ columns[row[i].col] = inserted.filtered_columns[i]
                      /\ row[i] = masked_row(r)[row[i].col]

\* A two-row page with a masked cell in its second column has had its first
\* column stripped as an identity column.
C26_Witness ==
    /\ mask_pc = "inserted"
    /\ total_rows = 2
    /\ inserted.filtered_columns = <<"birth_date">>
    /\ masked_cells[2].replaced
    /\ ~masked_cells[1].is_pii

\* The destination table of workflow w holds the copy of w's source table
\* and nothing else.
HoldsOwnCopy(w) ==
    LET held == tables[runs[w].destination_table] IN
    /\ held[w] = runs[w].records_processed
    /\ held[w] = runs[w].total_count
    /\ \A o \in DOMAIN held : o # w => held[o] = 0

\* C27: when two concurrent executions of different workflows have both
\* ended COMPLETED, the destination table of each holds exactly the copy of
\* its own source table, as many rows as it reports.
C27_ConcurrentRunsIsolated ==
    (\A w \in Workflows : runs[w].pc = COMPLETED) =>
        \A w \in Workflows : HoldsOwnCopy(w)

\* The part of C27 the code keeps: two executions whose table mappings name
\* different destination tables do not interfere.
C27_DisjointDestinations ==
    \A w \in Workflows :
        (/\ runs[w].pc = COMPLETED
         /\ \A v \in Workflows \ {w} :
                runs[v].destination_table # runs[w].destination_table)
            => HoldsOwnCopy(w)

\* C28: a non-blank cell of a column whose mapping has the PII flag set keeps
\* its original value only when its masking call raised, whatever category
\* the mapping stores.
C28_NoSilentLeak ==
    \A n \in 1..Len(masked_cells) :
        (/\ masked_cells[n].is_pii
         /\ ~BlankCell(masked_cells[n])
         /\ ~masked_cells[n].replaced) => masked_cells[n].raised

\* The part of C28 the code keeps: when the stored category has a generator,
\* the cell receives the generator's output unless the call raised.
C28_KnownCategoryMasked ==
    \A n \in 1..Len(masked_cells) :
        (MaskedColumn(masked_cells[n]) /\ ~BlankCell(masked_cells[n])) =>
            /\ masked_cells[n].replaced # masked_cells[n].raised
            /\ masked_cells[n].replaced =>
                  /\ masked_cells[n].out.method = masked_cells[n].pii_attribute
                  /\ masked_cells[n].out.seed = hash_seed(masked_cells[n].value)

\* C29: in every persisted execution record completed_at is set exactly when
\* the status is COMPLETED or FAILED, and a FAILED record has an error
\* message.
C29_CompletedAtIffTerminal ==
    \A id \in DOMAIN executions :
        /\ executions[id].completed_at <=> executions[id].status \in Terminal
        /\ executions[id].status = FAILED => executions[id].error_message # NoText

\* The part of C29 the code keeps: a record in a terminal status has its
\* completed_at set.
C29_TerminalHasCompletedAt ==
    \A id \in DOMAIN executions :
        executions[id].status \in Terminal => executions[id].completed_at

\* C30: when an execution of the workflow has ended, the workflow's own
\* status is the terminal status of that execution; here for an execution
\* that returned with its record COMPLETED.
C30_WorkflowStatusFollows ==
    (pc = "returned" /\ Record.status = COMPLETED) =>
        workflow_status = Record.status

\* What the code does instead: no step of an execution writes the
\* workflow's status, which stays as create_workflow set it.
C30_WorkflowStatusUntouched ==
    workflow_status = "draft"
====
